---------------------------- MODULE Spec2Model ----------------------------
(***************************************************************************)
(* TrafficLight Nearby: presence register, discovery query and the         *)
(* request -> match relationship state machine, as implemented by the      *)
(* React Native client (App.tsx, and the tabbed screens nearby.tsx /       *)
(* requests.tsx) against a shared Supabase store.                          *)
(*                                                                         *)
(* A session is one running copy of the client on one device.  Every       *)
(* `await` of a store call is one step: the store executes the call and    *)
(* the client runs its continuation up to the next await.  The step that   *)
(* starts a handler (the button press, the timer tick) is separate, so     *)
(* other sessions and other handlers of the same session interleave        *)
(* between the start of a call and each of its store operations.           *)
(***************************************************************************)
EXTENDS Integers, Sequences, FiniteSets, TLC

VARIABLES
    build,      \* which client runs: "App" (App.tsx) or "Tabs" (app/(tabs)/*)
    now,        \* wall clock, seconds
    userId,     \* session -> signed-in user id, NoUser when session is null
    op,         \* session -> the foreground handler in flight (sets `loading`)
    hb,         \* session -> the silent updatePresence started by the heartbeat
    so,         \* session -> the silent updatePresence("red") of handleSignOut
    timer,      \* session -> the setInterval of the heartbeat effect
    alert,      \* session -> title of the last Alert.alert shown
    \* ---- store tables
    presence,   \* user -> presence row (upsert keyed by user_id)
    requests,   \* connect_requests, a sequence indexed by id
    matches,    \* matches, a sequence indexed by id
    \* ---- React state of a session
    status, bandM, myCell, nearby,
    incoming, outgoing, matchList, pendingTo,
    \* ---- chat
    messages,    \* messages table, a sequence indexed by id
    activeMatch, \* session -> id of the match whose chat is open, 0 for none
    msgList,     \* session -> the `messages` state of the open chat
    notes,       \* session -> ids of INSERT notifications on their way to it
    rt           \* session -> what the last realtime callback did

storeVars == <<presence, requests, matches>>
presVars  == <<status, bandM, myCell, nearby, timer, hb, so>>
relVars   == <<incoming, outgoing, matchList, pendingTo>>
chatVars  == <<messages, activeMatch, msgList, notes, rt>>
vars == <<build, now, userId, op, hb, so, timer, alert, presence, requests,
          matches, status, bandM, myCell, nearby, incoming, outgoing,
          matchList, pendingTo, messages, activeMatch, msgList, notes, rt>>

---------------------------------------------------------------------------
(* Bounds of the model *)

NumUsers == 2
NumSessions == 2
MaxRequests == 2
MaxRelTicks == 1
MaxTicks == 2
MaxNearbyTicks == 1
MaxMessages == 2
MaxClockSkewS == 60
TickStep == 60
KeepAliveStep == 15
MaxKeepAliveTicks == 9
MaxStaleTicks == 4

Users == 1..NumUsers
Sessions == 1..NumSessions
NoUser == 0
NoTime == -1
NoCell == <<>>

(* Program constants *)
OffTtlS == 10
OnTtlS == 120
HeartbeatS == 30
NearbyLimit == 20
HistoryLimitApp == 200
HistoryLimitTabs == 300
DefaultBand == 500
MetersPerDegLat == 111320
CosFloorE9 == 10000000

Statuses == {"red", "orange", "green"}
\* the bands offered by the UI are 50/100/200/500; the model uses two of them
Bands == {50, 500}

---------------------------------------------------------------------------
(* gridCellKey: exact decimal arithmetic on base-10000 limbs (little       *)
(* endian), since the products exceed 32 bits.  Coordinates are integers   *)
(* in units of 1e-4 degree; cos(lat) is a table of Math.cos values scaled  *)
(* by 1e9.                                                                 *)

Base == 10000

RECURSIVE MulSmall(_, _, _)
MulSmall(x, s, c) ==
    IF x = <<>>
    THEN IF c = 0 THEN <<>> ELSE <<c % Base>> \o MulSmall(<<>>, s, c \div Base)
    ELSE LET t == Head(x) * s + c
         IN  <<t % Base>> \o MulSmall(Tail(x), s, t \div Base)

RECURSIVE AddLimbs(_, _, _)
AddLimbs(x, y, c) ==
    IF x = <<>> /\ y = <<>>
    THEN IF c = 0 THEN <<>> ELSE <<c>>
    ELSE LET a == IF x = <<>> THEN 0 ELSE Head(x)
             b == IF y = <<>> THEN 0 ELSE Head(y)
             t == a + b + c
         IN  <<t % Base>>
             \o AddLimbs(IF x = <<>> THEN <<>> ELSE Tail(x),
                         IF y = <<>> THEN <<>> ELSE Tail(y), t \div Base)

RECURSIVE MulLimbs(_, _)
MulLimbs(x, y) ==
    IF y = <<>> THEN <<>>
    ELSE AddLimbs(MulSmall(x, Head(y), 0), <<0>> \o MulLimbs(x, Tail(y)), 0)

Limb(x, i) == IF i <= Len(x) THEN x[i] ELSE 0

Abs(n) == IF n < 0 THEN -n ELSE n

\* Math.cos((lat * Math.PI) / 180) * 1e9, for the latitudes of Positions
CosE9(lat) ==
    CASE lat = 377749 -> 790423437
      [] lat = 377750 -> 790422368
      [] lat = 377800 -> 790368909
      [] OTHER -> 1000000000

\* Math.round(deg1e4/1e4 * 111320 * scaleE9/1e9 / bandM): the numerator is
\* scaled so that the denominator is Base^5; limbs 1..5 are the fraction.
\* Math.round rounds half up, also for negative numbers.
RoundIndex(deg1e4, scaleE9, band) ==
    LET mag  == <<Abs(deg1e4) % Base, Abs(deg1e4) \div Base>>
        x1   == MulSmall(mag, MetersPerDegLat \div 40, 0)
        x2   == MulSmall(x1, 4000, 0)
        x3   == MulSmall(x2, 100000 \div band, 0)
        m    == <<scaleE9 % Base, (scaleE9 \div Base) % Base,
                  scaleE9 \div (Base * Base)>>
        n    == MulLimbs(x3, m)
        ip   == Limb(n, 6) + Base * Limb(n, 7)
        half == Limb(n, 5) >= Base \div 2
        over == \/ Limb(n, 5) > Base \div 2
                \/ /\ Limb(n, 5) = Base \div 2
                   /\ \E i \in 1..4 : Limb(n, i) # 0
    IN  IF deg1e4 >= 0
        THEN ip + (IF half THEN 1 ELSE 0)
        ELSE -(ip + (IF over THEN 1 ELSE 0))

Max(a, b) == IF a >= b THEN a ELSE b

\* mutant: the band is left out of the key
gridCellKey_NoBand(lat, lng, band) ==
    LET latIndex == RoundIndex(lat, 1000000000, band)
        lngIndex == RoundIndex(lng, Max(CosE9(lat), CosFloorE9), band)
    IN  <<0, latIndex, lngIndex>>

gridCellKey(lat, lng, band) ==
    LET latIndex == RoundIndex(lat, 1000000000, band)
        lngIndex == RoundIndex(lng, Max(CosE9(lat), CosFloorE9), band)
    IN  <<band, latIndex, lngIndex>>

\* device positions the location service may report (lat, lng in 1e-4 deg):
\* the first two share a cell at band 500 and not at band 50
Positions == { [lat |-> 377749, lng |-> -1224194],
               [lat |-> 377750, lng |-> -1224195] }

\* gridCellKey over the model's bands and positions, evaluated once
CellTable ==
    [b \in Bands |-> [p \in Positions |-> gridCellKey(p.lat, p.lng, b)]]

---------------------------------------------------------------------------
(* Rows and the record of a handler in flight *)

NoReq == [id |-> 0, from_user |-> NoUser, to_user |-> NoUser, status |-> "none",
          created_at |-> NoTime, responded_at |-> NoTime]

NoRow == [status |-> "none", band_m |-> 0, h3_cell |-> NoCell,
          last_seen_at |-> NoTime, expires_at |-> NoTime]

\* kind: which handler; pc: the store call it awaits; uid, band: userId and
\* bandM of the render whose closure runs; t0: the `new Date()` it took;
\* code: the error code the last store call returned ("" for none);
\* live: FALSE once the component that started it is unmounted (its
\* setState calls then do nothing, its store calls still run);
\* mid, body: match id and trimmed text of a chat call;
\* data: the rows a query has returned and the handler has not yet seen.
Idle == [kind |-> "idle", pc |-> "", uid |-> NoUser, st |-> "red", band |-> 0,
         t0 |-> 0, cell |-> NoCell, to |-> NoUser, req |-> NoReq, code |-> "",
         live |-> TRUE, mid |-> 0, body |-> <<>>, data |-> <<>>]

NoTimer == [on |-> FALSE, st |-> "red", uid |-> NoUser, band |-> 0, due |-> 0]

Busy(s) == op[s].kind # "idle"

---------------------------------------------------------------------------
(* The store: Supabase tables with their constraints *)

PendingExists(from, to) ==
    \E i \in DOMAIN requests :
        /\ requests[i].from_user = from
        /\ requests[i].to_user = to
        /\ requests[i].status = "pending"

\* connect_requests insert: unique (from_user, to_user) where status = pending
InsertRequestCode(from, to) == IF PendingExists(from, to) THEN "23505" ELSE ""

NewRequestRow_Swapped(from, to) ==
    [id |-> Len(requests) + 1, from_user |-> to, to_user |-> from,
     status |-> "pending", created_at |-> now, responded_at |-> NoTime]

NewRequestRow(from, to) ==
    [id |-> Len(requests) + 1, from_user |-> from, to_user |-> to,
     status |-> "pending", created_at |-> now, responded_at |-> NoTime]

\* matches insert: unique (request_id)
InsertMatchCode(reqId) ==
    IF \E i \in DOMAIN matches : matches[i].request_id = reqId
    THEN "23505" ELSE ""

\* mutant: the update also turns the request around
UpdateRequest_Reversed(id, st, at) ==
    [i \in DOMAIN requests |->
        IF requests[i].id = id
        THEN [requests[i] EXCEPT !.status = st, !.responded_at = at,
                                 !.from_user = requests[i].to_user,
                                 !.to_user = requests[i].from_user]
        ELSE requests[i]]

\* mutant: the update writes the status alone
UpdateRequest_StatusOnly(id, st, at) ==
    [i \in DOMAIN requests |->
        IF requests[i].id = id
        THEN [requests[i] EXCEPT !.status = st]
        ELSE requests[i]]

\* connect_requests update ... eq("id", id)
UpdateRequest(id, st, at) ==
    [i \in DOMAIN requests |->
        IF requests[i].id = id
        THEN [requests[i] EXCEPT !.status = st, !.responded_at = at]
        ELSE requests[i]]

\* select ... or(from_user.eq.uid, to_user.eq.uid)
RequestsOf(uid) ==
    { requests[i] : i \in { j \in DOMAIN requests :
        requests[j].from_user = uid \/ requests[j].to_user = uid } }

\* mutant: only the user_a side is matched
MatchesOf_UserAOnly(uid) ==
    { matches[i] : i \in { j \in DOMAIN matches : matches[j].user_a = uid } }

\* select ... or(user_a.eq.uid, user_b.eq.uid)
MatchesOf(uid) ==
    { matches[i] : i \in { j \in DOMAIN matches :
        matches[j].user_a = uid \/ matches[j].user_b = uid } }

\* select to_user ... eq(from_user, uid) eq(status, pending)
PendingToOf(uid) ==
    { requests[i].to_user : i \in { j \in DOMAIN requests :
        requests[j].from_user = uid /\ requests[j].status = "pending" } }

---------------------------------------------------------------------------
(* Pure client functions *)

\* mutant: the pair is not ordered
orderedPair_NoSwap(a, b) == [user_a |-> a, user_b |-> b]

orderedPair(a, b) ==
    IF a < b THEN [user_a |-> a, user_b |-> b] ELSE [user_a |-> b, user_b |-> a]

\* sendRequest: what the insert's error code becomes for the user
SendAlert_DupFails(code) == IF code = "" THEN "Request/Sent" ELSE "Send failed"

SendAlert(code) ==
    IF code = "23505" THEN "Request/AlreadySent"
    ELSE IF code = "" THEN "Request/Sent"
    ELSE "Send failed"

\* acceptRequest: `if (mErr && String(mErr.code) !== "23505") throw mErr`
MatchInsertThrows_DupThrows(code) == code # ""

MatchInsertThrows(code) == code # "" /\ code # "23505"

\* isRequested (App.tsx) / pendingTo.has (nearby.tsx): the button is disabled
Already(s, toId) ==
    IF build = "App"
    THEN \E r \in outgoing[s] : r.to_user = toId
    ELSE toId \in pendingTo[s]

IncomingOf(all, uid) == { r \in all : r.to_user = uid /\ r.status = "pending" }
OutgoingOf(all, uid) == { r \in all : r.from_user = uid /\ r.status = "pending" }

\* mutant: the effect starts the interval whatever the status is
HeartbeatEffect_AnyStatus(uid, st, band) ==
    IF uid = NoUser THEN NoTimer
    ELSE [on |-> TRUE, st |-> st, uid |-> uid, band |-> band,
          due |-> now + HeartbeatS]

\* The heartbeat effect, deps [userId, status, bandM]: run after a render in
\* which one of them changed, it clears the old interval and, when signed in
\* and not red, starts one whose callback is updatePresence(status, true) of
\* that render.
HeartbeatEffect(uid, st, band) ==
    IF uid = NoUser \/ st = "red" THEN NoTimer
    ELSE [on |-> TRUE, st |-> st, uid |-> uid, band |-> band,
          due |-> now + HeartbeatS]

\* the row updatePresence upserts
PresenceRow_LongOff(st, band, cell, t0) ==
    [status |-> st, band_m |-> band,
     h3_cell |-> IF st = "red" THEN NoCell ELSE cell,
     last_seen_at |-> t0,
     expires_at |-> t0 + OnTtlS]

PresenceRow(st, band, cell, t0) ==
    [status |-> st, band_m |-> band,
     h3_cell |-> IF st = "red" THEN NoCell ELSE cell,
     last_seen_at |-> t0,
     expires_at |-> t0 + IF st = "red" THEN OffTtlS ELSE OnTtlS]

\* fetchNearby's query: eq(h3_cell) neq(user_id) neq(status, red)
\* gt(expires_at, nowIso); a missing row matches nothing
NearbyMatch_WithSelf(u, cell, uid, nowIso) ==
    /\ presence[u].status # "none"
    /\ presence[u].h3_cell = cell
    /\ presence[u].status # "red"
    /\ presence[u].expires_at > nowIso

\* mutant: the query asks for green rows only
NearbyMatch_GreenOnly(u, cell, uid, nowIso) ==
    /\ presence[u].status # "none"
    /\ presence[u].h3_cell = cell
    /\ u # uid
    /\ presence[u].status = "green"
    /\ presence[u].expires_at > nowIso

NearbyMatch(u, cell, uid, nowIso) ==
    /\ presence[u].status # "none"
    /\ presence[u].h3_cell = cell
    /\ u # uid
    /\ presence[u].status # "red"
    /\ presence[u].expires_at > nowIso

Min(a, b) == IF a <= b THEN a ELSE b

\* .limit(20): any NearbyLimit of the matching rows
NearbyRowSets(cell, uid, nowIso) ==
    LET m == { u \in Users : NearbyMatch(u, cell, uid, nowIso) }
    IN  { r \in SUBSET m : Cardinality(r) = Min(Cardinality(m), NearbyLimit) }

NearbyItems(rows) == { [userId |-> u, status |-> presence[u].status] : u \in rows }

---------------------------------------------------------------------------
(* Initial state: nobody signed in, empty store *)

Init ==
    /\ build \in {"App", "Tabs"}
    /\ now = 0
    /\ userId = [s \in Sessions |-> NoUser]
    /\ op = [s \in Sessions |-> Idle]
    /\ hb = [s \in Sessions |-> Idle]
    /\ so = [s \in Sessions |-> Idle]
    /\ timer = [s \in Sessions |-> NoTimer]
    /\ alert = [s \in Sessions |-> ""]
    /\ presence = [u \in Users |-> NoRow]
    /\ requests = <<>>
    /\ matches = <<>>
    /\ status = [s \in Sessions |-> "red"]
    /\ bandM = [s \in Sessions |-> DefaultBand]
    /\ myCell = [s \in Sessions |-> NoCell]
    /\ nearby = [s \in Sessions |-> {}]
    /\ incoming = [s \in Sessions |-> {}]
    /\ outgoing = [s \in Sessions |-> {}]
    /\ matchList = [s \in Sessions |-> {}]
    /\ pendingTo = [s \in Sessions |-> {}]
    /\ messages = <<>>
    /\ activeMatch = [s \in Sessions |-> 0]
    /\ msgList = [s \in Sessions |-> <<>>]
    /\ notes = [s \in Sessions |-> {}]
    /\ rt = [s \in Sessions |-> ""]

Tick(step, limit) ==
    /\ now + step <= limit * step
    /\ now' = now + step
    /\ UNCHANGED <<build, userId, op, hb, so, timer, alert, presence, requests,
                   matches, status, bandM, myCell, nearby, incoming, outgoing,
                   matchList, pendingTo>>
    /\ UNCHANGED chatVars

---------------------------------------------------------------------------
(* Sign-in and sign-out *)

\* App.tsx signIn: onAuthStateChange sets the session; the
\* setTimeout(fetchRequestsAndMatches, 300) it schedules is the closure of the
\* signed-out render (userId null) and returns at once.
\* Tabs: AuthGate routes to /(tabs)/nearby, whose mount effect runs
\* loadPendingOutgoing.
SignIn(s, u) ==
    /\ userId[s] = NoUser
    /\ ~Busy(s)
    /\ so[s].kind = "idle"
    /\ userId' = [userId EXCEPT ![s] = u]
    /\ op' = [op EXCEPT ![s] =
                IF build = "Tabs"
                THEN [Idle EXCEPT !.kind = "mount", !.pc = "pending", !.uid = u]
                ELSE Idle]
    /\ timer' = [timer EXCEPT ![s] = HeartbeatEffect(u, status[s], bandM[s])]
    /\ UNCHANGED <<build, now, hb, so, alert, presence, requests,
                   matches, status, bandM, myCell, nearby, incoming, outgoing,
                   matchList, pendingTo>>
    /\ UNCHANGED chatVars

\* App.tsx signOut: the button is not disabled by `loading`, so a handler in
\* flight keeps running with the closure of the signed-in render.
SignOutApp(s) ==
    /\ build = "App"
    /\ userId[s] # NoUser
    /\ userId' = [userId EXCEPT ![s] = NoUser]
    /\ nearby' = [nearby EXCEPT ![s] = {}]
    /\ incoming' = [incoming EXCEPT ![s] = {}]
    /\ outgoing' = [outgoing EXCEPT ![s] = {}]
    /\ matchList' = [matchList EXCEPT ![s] = {}]
    /\ myCell' = [myCell EXCEPT ![s] = NoCell]
    /\ status' = [status EXCEPT ![s] = "red"]
    /\ timer' = [timer EXCEPT ![s] = NoTimer]
    /\ UNCHANGED <<build, now, op, hb, so, alert, presence, requests, matches,
                   bandM, pendingTo>>
    /\ activeMatch' = [activeMatch EXCEPT ![s] = 0]
    /\ msgList' = [msgList EXCEPT ![s] = <<>>]
    /\ notes' = [notes EXCEPT ![s] = {}]
    /\ UNCHANGED <<messages, rt>>

---------------------------------------------------------------------------
(* Relationship state machine *)

\* sendRequest up to its first await.  toId is an entry of the nearby list,
\* which may hold any user id (a snapshot of an earlier query).
SendRequestStart(s, toId) ==
    /\ userId[s] # NoUser
    /\ ~Busy(s)
    /\ ~Already(s, toId)
    /\ toId # userId[s]
    /\ Len(requests)
         + Cardinality({ t \in Sessions : op[t].kind = "send" /\ op[t].pc = "insert" })
         < MaxRequests
    /\ op' = [op EXCEPT ![s] =
                [Idle EXCEPT !.kind = "send", !.pc = "insert",
                             !.uid = userId[s], !.to = toId]]
    /\ alert' = [alert EXCEPT ![s] = ""]
    /\ UNCHANGED <<build, now, userId, hb, so, timer, presence, requests,
                   matches, status, bandM, myCell, nearby, incoming, outgoing,
                   matchList, pendingTo>>
    /\ UNCHANGED chatVars

\* sendRequest with toId === userId: returns before anything is set
SendRequestSelf(s) ==
    /\ userId[s] # NoUser
    /\ ~Busy(s)
    /\ ~Already(s, userId[s])
    /\ UNCHANGED vars

\* the insert and the Alert that follows it
SendRequestInsert(s) ==
    /\ op[s].kind = "send" /\ op[s].pc = "insert"
    /\ LET code == InsertRequestCode(op[s].uid, op[s].to)
       IN  /\ requests' = IF code = ""
                          THEN Append(requests, NewRequestRow(op[s].uid, op[s].to))
                          ELSE requests
           /\ alert' = [alert EXCEPT ![s] = SendAlert(code)]
           /\ op' = [op EXCEPT ![s] =
                       IF SendAlert(code) = "Send failed" THEN Idle
                       ELSE [@ EXCEPT !.code = code,
                                      !.pc = IF build = "App" THEN "reqs"
                                             ELSE "pending"]]
    /\ UNCHANGED <<build, now, userId, hb, so, timer, presence, matches, status,
                   bandM, myCell, nearby, incoming, outgoing, matchList,
                   pendingTo>>
    /\ UNCHANGED chatVars

\* nearby.tsx loadPendingOutgoing
LoadPendingOutgoing(s) ==
    /\ op[s].pc = "pending"
    /\ pendingTo' = IF op[s].live
                    THEN [pendingTo EXCEPT ![s] = PendingToOf(op[s].uid)]
                    ELSE pendingTo
    /\ op' = [op EXCEPT ![s] = Idle]
    /\ UNCHANGED <<build, now, userId, hb, so, timer, alert, presence, requests,
                   matches, status, bandM, myCell, nearby, incoming, outgoing,
                   matchList>>
    /\ UNCHANGED chatVars

\* the connect_requests query of App.tsx fetchRequestsAndMatches and of
\* requests.tsx refresh; in requests.tsx the handler's Alert follows it
RefreshRequests(s) ==
    /\ op[s].pc = "reqs"
    /\ LET all == RequestsOf(op[s].uid)
       IN  /\ incoming' = IF op[s].live
                          THEN [incoming EXCEPT ![s] = IncomingOf(all, op[s].uid)]
                          ELSE incoming
           /\ outgoing' = IF op[s].live
                          THEN [outgoing EXCEPT ![s] = OutgoingOf(all, op[s].uid)]
                          ELSE outgoing
    /\ op' = [op EXCEPT ![s] = IF build = "App" THEN [@ EXCEPT !.pc = "matches"]
                               ELSE Idle]
    /\ alert' = IF build = "Tabs" /\ op[s].kind = "accept"
                THEN [alert EXCEPT ![s] = "Matched"]
                ELSE IF build = "Tabs" /\ op[s].kind = "decline"
                THEN [alert EXCEPT ![s] = "Declined"]
                ELSE alert
    /\ UNCHANGED <<build, now, userId, hb, so, timer, presence, requests,
                   matches, status, bandM, myCell, nearby, matchList, pendingTo>>
    /\ UNCHANGED chatVars

\* the matches query of App.tsx fetchRequestsAndMatches
RefreshMatches(s) ==
    /\ op[s].pc = "matches"
    /\ matchList' = IF op[s].live
                     THEN [matchList EXCEPT ![s] = MatchesOf(op[s].uid)]
                     ELSE matchList
    /\ op' = [op EXCEPT ![s] = Idle]
    /\ UNCHANGED <<build, now, userId, hb, so, timer, alert, presence, requests,
                   matches, status, bandM, myCell, nearby, incoming, outgoing,
                   pendingTo>>
    /\ UNCHANGED chatVars

\* "Load Requests / Matches" (App.tsx), "Refresh" (requests.tsx)
FetchStart(s) ==
    /\ userId[s] # NoUser
    /\ ~Busy(s)
    /\ op' = [op EXCEPT ![s] =
                [Idle EXCEPT !.kind = "fetch", !.pc = "reqs", !.uid = userId[s]]]
    /\ alert' = [alert EXCEPT ![s] = ""]
    /\ UNCHANGED <<build, now, userId, hb, so, timer, presence, requests,
                   matches, status, bandM, myCell, nearby, incoming, outgoing,
                   matchList, pendingTo>>
    /\ UNCHANGED chatVars

\* acceptRequest / declineRequest up to the first await; req is a row of the
\* incoming list as rendered
RespondStart(s, req, kind) ==
    /\ userId[s] # NoUser
    /\ ~Busy(s)
    /\ req \in incoming[s]
    /\ op' = [op EXCEPT ![s] =
                [Idle EXCEPT !.kind = kind, !.pc = "update", !.uid = userId[s],
                             !.req = req, !.t0 = now]]
    /\ alert' = [alert EXCEPT ![s] = ""]
    /\ UNCHANGED <<build, now, userId, hb, so, timer, presence, requests,
                   matches, status, bandM, myCell, nearby, incoming, outgoing,
                   matchList, pendingTo>>
    /\ UNCHANGED chatVars

AcceptStart(s, req) == RespondStart(s, req, "accept")

DeclineStart(s, req) == RespondStart(s, req, "decline")

\* acceptRequest: update({status: "accepted", responded_at}).eq("id", req.id)
AcceptUpdate(s) ==
    /\ op[s].kind = "accept" /\ op[s].pc = "update"
    /\ requests' = UpdateRequest(op[s].req.id, "accepted", op[s].t0)
    /\ op' = [op EXCEPT ![s].pc = "insert"]
    /\ UNCHANGED <<build, now, userId, hb, so, timer, alert, presence, matches,
                   status, bandM, myCell, nearby, incoming, outgoing, matchList,
                   pendingTo>>
    /\ UNCHANGED chatVars

NewMatchRow(req) ==
    LET pair == orderedPair(req.from_user, req.to_user)
    IN  [id |-> Len(matches) + 1, request_id |-> req.id,
         user_a |-> pair.user_a, user_b |-> pair.user_b, created_at |-> now]

\* acceptRequest: the matches insert and what follows it
AcceptInsert(s) ==
    /\ op[s].kind = "accept" /\ op[s].pc = "insert"
    /\ LET code == InsertMatchCode(op[s].req.id)
       IN  /\ matches' = IF code = "" THEN Append(matches, NewMatchRow(op[s].req))
                         ELSE matches
           /\ IF MatchInsertThrows(code)
              THEN /\ alert' = [alert EXCEPT ![s] = "Accept failed"]
                   /\ op' = [op EXCEPT ![s] = Idle]
              ELSE /\ alert' = IF build = "App"
                               THEN [alert EXCEPT ![s] = "Match"]
                               ELSE alert
                   /\ op' = [op EXCEPT ![s].pc = "reqs", ![s].code = code]
    /\ UNCHANGED <<build, now, userId, hb, so, timer, presence, requests, status,
                   bandM, myCell, nearby, incoming, outgoing, matchList,
                   pendingTo>>
    /\ UNCHANGED chatVars

\* declineRequest: update({status: "declined", responded_at}).eq("id", req.id)
DeclineUpdate(s) ==
    /\ op[s].kind = "decline" /\ op[s].pc = "update"
    /\ requests' = UpdateRequest(op[s].req.id, "declined", op[s].t0)
    /\ alert' = IF build = "App" THEN [alert EXCEPT ![s] = "Request/Declined"]
                ELSE alert
    /\ op' = [op EXCEPT ![s].pc = "reqs"]
    /\ UNCHANGED <<build, now, userId, hb, so, timer, presence, matches, status,
                   bandM, myCell, nearby, incoming, outgoing, matchList,
                   pendingTo>>
    /\ UNCHANGED chatVars

---------------------------------------------------------------------------
(* Presence register and discovery *)

Slot(s, w) == IF w = "op" THEN op[s] ELSE hb[s]

SetSlot(s, w, v) ==
    /\ op' = IF w = "op" THEN [op EXCEPT ![s] = v] ELSE op
    /\ hb' = IF w = "hb" THEN [hb EXCEPT ![s] = v] ELSE hb

\* mutant: the call keeps the coordinates themselves as the key
Located_Raw(band) == { <<band, p.lat, p.lng>> : p \in Positions }

\* requestForegroundPermissionsAsync and getCurrentPositionAsync, then
\* gridCellKey: what updatePresence learns for a non-red status. These awaits
\* touch nothing shared, so they are taken in the step that starts the call.
Located(band) == { CellTable[band][p] : p \in Positions }

\* updatePresence(nextStatus) from the traffic light, up to the upsert's
\* await: `now` is taken first; a refused permission throws, which ends the
\* call with an Alert
UpdatePresenceGranted(s, st) ==
    /\ userId[s] # NoUser
    /\ ~Busy(s)
    /\ \E cell \in (IF st = "red" THEN {NoCell} ELSE Located(bandM[s])) :
          op' = [op EXCEPT ![s] =
                   [Idle EXCEPT !.kind = "presence", !.pc = "upsert",
                                !.uid = userId[s], !.st = st,
                                !.band = bandM[s], !.t0 = now,
                                !.cell = cell]]
    /\ alert' = [alert EXCEPT ![s] = ""]
    /\ UNCHANGED <<build, now, userId, hb, so, timer, presence, requests,
                   matches, status, bandM, myCell, nearby, incoming, outgoing,
                   matchList, pendingTo>>
    /\ UNCHANGED chatVars

\* mutant: the status is set although the permission was refused
UpdatePresenceDenied_SetsStatus(s, st) ==
    /\ userId[s] # NoUser
    /\ ~Busy(s)
    /\ st # "red"
    /\ alert' = [alert EXCEPT ![s] = "Presence update failed"]
    /\ status' = [status EXCEPT ![s] = st]
    /\ UNCHANGED <<build, now, userId, op, hb, so, timer, presence, requests,
                   matches, bandM, myCell, nearby, incoming, outgoing,
                   matchList, pendingTo>>
    /\ UNCHANGED chatVars

\* updatePresence(orange | green) when the permission is not granted: the
\* throw lands in the catch, which shows the alert
UpdatePresenceDenied(s, st) ==
    /\ userId[s] # NoUser
    /\ ~Busy(s)
    /\ st # "red"
    /\ alert' = [alert EXCEPT ![s] = "Presence update failed"]
    /\ UNCHANGED <<build, now, userId, op, hb, so, timer, presence, requests,
                   matches, status, bandM, myCell, nearby, incoming, outgoing,
                   matchList, pendingTo>>
    /\ UNCHANGED chatVars

UpdatePresenceStart(s, st) ==
    \/ UpdatePresenceGranted(s, st)
    \/ UpdatePresenceDenied(s, st)

\* the interval callback: updatePresence(status, true) of the render that
\* started the interval (one silent call in flight per session)
HeartbeatFireGranted(s) ==
    /\ timer[s].on
    /\ now >= timer[s].due
    /\ hb[s].kind = "idle"
    /\ \E cell \in Located(timer[s].band) :
          hb' = [hb EXCEPT ![s] =
                   [Idle EXCEPT !.kind = "presence", !.pc = "upsert",
                                !.uid = timer[s].uid, !.st = timer[s].st,
                                !.band = timer[s].band, !.t0 = now,
                                !.cell = cell]]
    /\ timer' = [timer EXCEPT ![s].due = now + HeartbeatS]
    /\ UNCHANGED <<build, now, userId, op, so, alert, presence, requests,
                   matches, status, bandM, myCell, nearby, incoming, outgoing,
                   matchList, pendingTo>>
    /\ UNCHANGED chatVars

\* the interval callback with the permission refused: the silent call ends
\* without a trace
HeartbeatFireDenied(s) ==
    /\ timer[s].on
    /\ now >= timer[s].due
    /\ hb[s].kind = "idle"
    /\ timer' = [timer EXCEPT ![s].due = now + HeartbeatS]
    /\ UNCHANGED <<build, now, userId, op, hb, so, alert, presence, requests,
                   matches, status, bandM, myCell, nearby, incoming, outgoing,
                   matchList, pendingTo>>
    /\ UNCHANGED chatVars

HeartbeatFire(s) ==
    \/ HeartbeatFireGranted(s)
    \/ HeartbeatFireDenied(s)

\* the presence upsert and the setStatus / setMyCell / setNearby after it
UpdatePresenceUpsert(s, w) ==
    /\ Slot(s, w).kind = "presence" /\ Slot(s, w).pc = "upsert"
    /\ LET c == Slot(s, w)
       IN  /\ presence' = [presence EXCEPT
                              ![c.uid] = PresenceRow(c.st, c.band, c.cell, c.t0)]
           /\ status' = IF c.live THEN [status EXCEPT ![s] = c.st] ELSE status
           /\ myCell' = IF c.live
                        THEN [myCell EXCEPT ![s] =
                                 IF c.st = "red" THEN NoCell ELSE c.cell]
                        ELSE myCell
           /\ nearby' = IF c.live /\ c.st = "red"
                        THEN [nearby EXCEPT ![s] = {}] ELSE nearby
           /\ timer' = IF c.live /\ status[s] # c.st
                       THEN [timer EXCEPT ![s] =
                                HeartbeatEffect(userId[s], c.st, bandM[s])]
                       ELSE timer
           /\ alert' = IF w = "op" THEN [alert EXCEPT ![s] = "Sharing updated"]
                       ELSE alert
    /\ SetSlot(s, w, Idle)
    /\ UNCHANGED <<build, now, userId, so, requests, matches, bandM, incoming,
                   outgoing, matchList, pendingTo>>
    /\ UNCHANGED chatVars

\* the presence upsert returns an error: `if (error) throw error` skips the
\* setState calls, the catch shows the alert unless the call is silent
UpdatePresenceUpsertError(s, w) ==
    /\ Slot(s, w).kind = "presence" /\ Slot(s, w).pc = "upsert"
    /\ alert' = IF w = "op" THEN [alert EXCEPT ![s] = "Presence update failed"]
                ELSE alert
    /\ SetSlot(s, w, Idle)
    /\ UNCHANGED <<build, now, userId, so, timer, presence, requests, matches,
                   status, bandM, myCell, nearby, incoming, outgoing,
                   matchList, pendingTo>>
    /\ UNCHANGED chatVars

\* the band buttons: setBandM only; the effect restarts the interval
SetBand(s, b) ==
    /\ userId[s] # NoUser
    /\ ~Busy(s)
    /\ b # bandM[s]
    /\ bandM' = [bandM EXCEPT ![s] = b]
    /\ timer' = [timer EXCEPT ![s] = HeartbeatEffect(userId[s], status[s], b)]
    /\ UNCHANGED <<build, now, userId, op, hb, so, alert, presence, requests,
                   matches, status, myCell, nearby, incoming, outgoing,
                   matchList, pendingTo>>
    /\ UNCHANGED chatVars

\* fetchNearby without a cell: an Alert and nothing else
FetchNearbyNoCell(s) ==
    /\ userId[s] # NoUser
    /\ ~Busy(s)
    /\ myCell[s] = NoCell
    /\ alert' = [alert EXCEPT ![s] = "Nearby/NoCell"]
    /\ UNCHANGED <<build, now, userId, op, hb, so, timer, presence, requests,
                   matches, status, bandM, myCell, nearby, incoming, outgoing,
                   matchList, pendingTo>>
    /\ UNCHANGED chatVars

\* fetchNearby up to its await: nowIso and myCell of this render
FetchNearbyStart(s) ==
    /\ userId[s] # NoUser
    /\ ~Busy(s)
    /\ myCell[s] # NoCell
    /\ op' = [op EXCEPT ![s] =
                [Idle EXCEPT !.kind = "nearby", !.pc = "query",
                             !.uid = userId[s], !.cell = myCell[s], !.t0 = now]]
    /\ alert' = [alert EXCEPT ![s] = ""]
    /\ UNCHANGED <<build, now, userId, hb, so, timer, presence, requests,
                   matches, status, bandM, myCell, nearby, incoming, outgoing,
                   matchList, pendingTo>>
    /\ UNCHANGED chatVars

\* the presence query and setNearby
FetchNearbyQuery(s) ==
    /\ op[s].kind = "nearby" /\ op[s].pc = "query"
    /\ \E rows \in NearbyRowSets(op[s].cell, op[s].uid, op[s].t0) :
          nearby' = IF op[s].live
                    THEN [nearby EXCEPT ![s] = NearbyItems(rows)]
                    ELSE nearby
    /\ alert' = IF build = "App" THEN [alert EXCEPT ![s] = "Nearby/found"]
                ELSE alert
    /\ op' = [op EXCEPT ![s] = Idle]
    /\ UNCHANGED <<build, now, userId, hb, so, timer, presence, requests,
                   matches, status, bandM, myCell, incoming, outgoing,
                   matchList, pendingTo>>
    /\ UNCHANGED chatVars

\* nearby.tsx handleSignOut up to its await: updatePresence("red", true)
HandleSignOutStart(s) ==
    /\ build = "Tabs"
    /\ userId[s] # NoUser
    /\ so[s].kind = "idle"
    /\ so' = [so EXCEPT ![s] =
                [Idle EXCEPT !.kind = "presence", !.pc = "upsert",
                             !.uid = userId[s], !.st = "red",
                             !.band = bandM[s], !.t0 = now]]
    /\ UNCHANGED <<build, now, userId, op, hb, timer, alert, presence, requests,
                   matches, status, bandM, myCell, nearby, incoming, outgoing,
                   matchList, pendingTo>>
    /\ UNCHANGED chatVars

Unmounted(c) == IF c.kind = "idle" THEN c ELSE [c EXCEPT !.live = FALSE]

\* the red upsert, then signOut() and router.replace("/login"): the tab
\* screens unmount, the next sign-in mounts them with their initial state
HandleSignOutFinish(s) ==
    /\ so[s].kind = "presence" /\ so[s].pc = "upsert"
    /\ presence' = [presence EXCEPT
                       ![so[s].uid] = PresenceRow("red", so[s].band, NoCell, so[s].t0)]
    /\ userId' = [userId EXCEPT ![s] = NoUser]
    /\ status' = [status EXCEPT ![s] = "red"]
    /\ bandM' = [bandM EXCEPT ![s] = DefaultBand]
    /\ myCell' = [myCell EXCEPT ![s] = NoCell]
    /\ nearby' = [nearby EXCEPT ![s] = {}]
    /\ incoming' = [incoming EXCEPT ![s] = {}]
    /\ outgoing' = [outgoing EXCEPT ![s] = {}]
    /\ matchList' = [matchList EXCEPT ![s] = {}]
    /\ pendingTo' = [pendingTo EXCEPT ![s] = {}]
    /\ timer' = [timer EXCEPT ![s] = NoTimer]
    /\ op' = [op EXCEPT ![s] = Unmounted(@)]
    /\ hb' = [hb EXCEPT ![s] = Unmounted(@)]
    /\ so' = [so EXCEPT ![s] = Idle]
    /\ UNCHANGED <<build, now, alert, requests, matches>>
    /\ activeMatch' = [activeMatch EXCEPT ![s] = 0]
    /\ msgList' = [msgList EXCEPT ![s] = <<>>]
    /\ notes' = [notes EXCEPT ![s] = {}]
    /\ rt' = [rt EXCEPT ![s] = ""]
    /\ UNCHANGED messages

---------------------------------------------------------------------------
(* Chat: messages of a match, history load and live delivery *)

\* what the user may have typed into the message box
Texts == { <<>>, <<" ">>, <<"a">>, <<" ", "a", " ">> }

RECURSIVE TrimStart(_)
TrimStart(t) == IF t # <<>> /\ Head(t) = " " THEN TrimStart(Tail(t)) ELSE t

RECURSIVE TrimEnd(_)
TrimEnd(t) ==
    IF t # <<>> /\ t[Len(t)] = " " THEN TrimEnd(SubSeq(t, 1, Len(t) - 1)) ELSE t

trim_Keep(t) == t

\* String.prototype.trim
trim(t) == TrimEnd(TrimStart(t))

\* `new Date()` on a device: its clock is the wall clock or ahead of it
ClockReadings == { now, now + MaxClockSkewS }

\* a user id that takes no part in any request or match
Outsider == NumUsers + 1

MessagesOf(mid) == { i \in DOMAIN messages : messages[i].match_id = mid }

\* mutant: the query keeps the latest rows
HistoryOrders_Latest(mid, limit) ==
    LET ids == MessagesOf(mid)
        n   == Cardinality(ids)
        qs  == { q \in [1..n -> ids] :
                   /\ \A i, k \in 1..n : q[i] = q[k] => i = k
                   /\ \A i, k \in 1..n :
                         i < k => messages[q[i]].created_at
                                     <= messages[q[k]].created_at }
    IN  { [i \in 1..Min(n, limit) |-> messages[q[i + n - Min(n, limit)]]] : q \in qs }

\* messages select .eq("match_id").order("created_at", ascending).limit(n):
\* rows with equal created_at come in any order
HistoryOrders(mid, limit) ==
    LET ids == MessagesOf(mid)
        n   == Cardinality(ids)
        qs  == { q \in [1..n -> ids] :
                   /\ \A i, k \in 1..n : q[i] = q[k] => i = k
                   /\ \A i, k \in 1..n :
                         i < k => messages[q[i]].created_at
                                     <= messages[q[k]].created_at }
    IN  { [i \in 1..Min(n, limit) |-> messages[q[i]]] : q \in qs }

HistoryLimit == IF build = "App" THEN HistoryLimitApp ELSE HistoryLimitTabs

RECURSIVE InsertStable(_, _)
InsertStable(sq, x) ==
    IF sq = <<>> THEN <<x>>
    ELSE IF Head(sq).created_at <= x.created_at
         THEN <<Head(sq)>> \o InsertStable(Tail(sq), x)
         ELSE <<x>> \o sq

\* Array.prototype.sort by created_at (stable)
RECURSIVE SortByCreated(_)
SortByCreated(sq) ==
    IF sq = <<>> THEN <<>>
    ELSE InsertStable(SortByCreated(SubSeq(sq, 1, Len(sq) - 1)), sq[Len(sq)])

Exists(prev, m) == \E i \in DOMAIN prev : prev[i].id = m.id

\* the realtime callback's setMessages updater
LiveInsert_NoFilter(prev, m) ==
    SortByCreated(Append(prev, m))

LiveInsert(prev, m) ==
    IF Exists(prev, m) THEN prev ELSE SortByCreated(Append(prev, m))

\* chats.tsx refresh (mount effect of the Chats tab or its Refresh button)
ChatsRefreshStart(s) ==
    /\ build = "Tabs"
    /\ userId[s] # NoUser
    /\ ~Busy(s)
    /\ op' = [op EXCEPT ![s] =
                [Idle EXCEPT !.kind = "chats", !.pc = "matches",
                             !.uid = userId[s]]]
    /\ alert' = [alert EXCEPT ![s] = ""]
    /\ UNCHANGED <<build, now, userId, hb, so, timer, presence, requests,
                   matches, status, bandM, myCell, nearby, incoming, outgoing,
                   matchList, pendingTo>>
    /\ UNCHANGED chatVars

\* App.tsx openChat(m) up to the await in fetchMessages; chats.tsx "Open
\* chat" and the mount of chat/[matchId].tsx up to loadMessages. The realtime
\* effect subscribes to the match's channel.
OpenChat(s, m) ==
    /\ userId[s] # NoUser
    /\ ~Busy(s)
    /\ m \in matchList[s]
    /\ activeMatch[s] = 0
    /\ activeMatch' = [activeMatch EXCEPT ![s] = m.id]
    /\ msgList' = [msgList EXCEPT ![s] = <<>>]
    /\ notes' = [notes EXCEPT ![s] = {}]
    /\ op' = [op EXCEPT ![s] =
                [Idle EXCEPT !.kind = "chat", !.pc = "history",
                             !.uid = userId[s], !.mid = m.id]]
    /\ alert' = [alert EXCEPT ![s] = ""]
    /\ UNCHANGED <<build, now, userId, hb, so, timer, presence, requests,
                   matches, status, bandM, myCell, nearby, incoming, outgoing,
                   matchList, pendingTo, messages, rt>>

\* the messages query of fetchMessages / loadMessages and setMessages(rows)
LoadMessages(s) ==
    /\ op[s].kind = "chat" /\ op[s].pc = "history"
    /\ \E rows \in HistoryOrders(op[s].mid, HistoryLimit) :
          msgList' = IF op[s].live /\ (build = "App" \/ activeMatch[s] = op[s].mid)
                     THEN [msgList EXCEPT ![s] = rows]
                     ELSE msgList
    /\ op' = [op EXCEPT ![s] = Idle]
    /\ UNCHANGED <<build, now, userId, hb, so, timer, alert, presence, requests,
                   matches, status, bandM, myCell, nearby, incoming, outgoing,
                   matchList, pendingTo, messages, activeMatch, notes, rt>>

\* the messages query of fetchMessages / loadMessages as the store runs it:
\* the rows are on their way back while notifications may still arrive
LoadMessagesQuery(s) ==
    /\ op[s].kind = "chat" /\ op[s].pc = "history"
    /\ \E rows \in HistoryOrders(op[s].mid, HistoryLimit) :
          op' = [op EXCEPT ![s].pc = "rows", ![s].data = rows]
    /\ UNCHANGED <<build, now, userId, hb, so, timer, alert, presence, requests,
                   matches, status, bandM, myCell, nearby, incoming, outgoing,
                   matchList, pendingTo>>
    /\ UNCHANGED chatVars

\* the await returns: setMessages(rows) replaces the list
LoadMessagesApply(s) ==
    /\ op[s].kind = "chat" /\ op[s].pc = "rows"
    /\ msgList' = IF op[s].live /\ (build = "App" \/ activeMatch[s] = op[s].mid)
                  THEN [msgList EXCEPT ![s] = op[s].data]
                  ELSE msgList
    /\ op' = [op EXCEPT ![s] = Idle]
    /\ UNCHANGED <<build, now, userId, hb, so, timer, alert, presence, requests,
                   matches, status, bandM, myCell, nearby, incoming, outgoing,
                   matchList, pendingTo, messages, activeMatch, notes, rt>>

\* sendMessage with a body that is empty after trim: returns at once
SendMessageEmpty(s, text) ==
    /\ userId[s] # NoUser
    /\ ~Busy(s)
    /\ activeMatch[s] # 0
    /\ trim(text) = <<>>
    /\ UNCHANGED vars

\* sendMessage up to the insert's await: created_at is t, what the device's
\* clock shows
SendMessageStart(s, text, t) ==
    /\ userId[s] # NoUser
    /\ ~Busy(s)
    /\ activeMatch[s] # 0
    /\ trim(text) # <<>>
    /\ Len(messages) < MaxMessages
    /\ op' = [op EXCEPT ![s] =
                [Idle EXCEPT !.kind = "msg", !.pc = "insert",
                             !.uid = userId[s], !.mid = activeMatch[s],
                             !.body = trim(text), !.t0 = t]]
    /\ alert' = [alert EXCEPT ![s] = ""]
    /\ UNCHANGED <<build, now, userId, hb, so, timer, presence, requests,
                   matches, status, bandM, myCell, nearby, incoming, outgoing,
                   matchList, pendingTo>>
    /\ UNCHANGED chatVars

\* mutant: the row is signed with the other participant's id
NewMessageRow_AsPeer(c) ==
    [id |-> Len(messages) + 1, match_id |-> c.mid,
     sender_user |-> IF matches[c.mid].user_a = c.uid
                     THEN matches[c.mid].user_b ELSE matches[c.mid].user_a,
     body |-> c.body, created_at |-> c.t0]

NewMessageRow(c) ==
    [id |-> Len(messages) + 1, match_id |-> c.mid, sender_user |-> c.uid,
     body |-> c.body, created_at |-> c.t0]

\* the sessions whose channel has the match's INSERT filter
Subscribers(mid) == { r \in Sessions : activeMatch[r] = mid }

\* the messages insert; the store notifies the subscribed sessions, `got` are
\* those whose notification is not lost
SendMessageInsert(s, got) ==
    /\ op[s].kind = "msg" /\ op[s].pc = "insert"
    /\ got \subseteq Subscribers(op[s].mid)
    /\ messages' = Append(messages, NewMessageRow(op[s]))
    /\ notes' = [r \in Sessions |->
                   IF r \in got THEN notes[r] \cup {Len(messages) + 1}
                   ELSE notes[r]]
    /\ op' = [op EXCEPT ![s] = Idle]
    /\ UNCHANGED <<build, now, userId, hb, so, timer, alert, presence, requests,
                   matches, status, bandM, myCell, nearby, incoming, outgoing,
                   matchList, pendingTo, activeMatch, msgList, rt>>

\* the realtime callback for one INSERT notification; the channel may
\* deliver the same notification again (again = TRUE)
Deliver(s, id, again) ==
    /\ id \in notes[s]
    /\ msgList' = [msgList EXCEPT ![s] = LiveInsert(@, messages[id])]
    /\ rt' = [rt EXCEPT ![s] = IF Exists(msgList[s], messages[id])
                               THEN "ignored" ELSE "appended"]
    /\ notes' = IF again THEN notes ELSE [notes EXCEPT ![s] = @ \ {id}]
    /\ UNCHANGED <<build, now, userId, op, hb, so, timer, alert, presence,
                   requests, matches, status, bandM, myCell, nearby, incoming,
                   outgoing, matchList, pendingTo, messages, activeMatch>>

\* App.tsx "Close chat": setActiveMatch(null), the list stays in state;
\* chat/[matchId].tsx: leaving the screen unmounts it. The channel is removed.
CloseChat(s) ==
    /\ activeMatch[s] # 0
    /\ ~Busy(s)
    /\ activeMatch' = [activeMatch EXCEPT ![s] = 0]
    /\ notes' = [notes EXCEPT ![s] = {}]
    /\ msgList' = IF build = "App" THEN msgList
                  ELSE [msgList EXCEPT ![s] = <<>>]
    /\ rt' = IF build = "App" THEN rt ELSE [rt EXCEPT ![s] = ""]
    /\ UNCHANGED <<build, now, userId, op, hb, so, timer, alert, presence,
                   requests, matches, status, bandM, myCell, nearby, incoming,
                   outgoing, matchList, pendingTo, messages>>

\* User 1 asks on device 1, user 2 accepts on device 2, then user 1 opens the
\* chat, writes and reads. Notifications may be lost or repeated, the device
\* clock may jump; the wall clock stands still.
NextChat ==
    \/ \E s \in Sessions : SignIn(s, s)
    \/ SendRequestStart(1, 2)
    \/ SendRequestInsert(1)
    \/ \E s \in Sessions : LoadPendingOutgoing(s)
    \/ \E s \in Sessions : FetchStart(s)
    \/ ChatsRefreshStart(1)
    \/ \E s \in Sessions : RefreshRequests(s)
    \/ \E s \in Sessions : RefreshMatches(s)
    \/ \E r \in incoming[2] : AcceptStart(2, r)
    \/ AcceptUpdate(2)
    \/ AcceptInsert(2)
    \/ \E m \in matchList[1] : OpenChat(1, m)
    \/ LoadMessages(1)
    \/ \E t \in Texts : SendMessageEmpty(1, t)
    \/ \E t \in Texts, c \in ClockReadings : SendMessageStart(1, t, c)
    \/ \E got \in SUBSET Sessions : SendMessageInsert(1, got)
    \/ \E id \in DOMAIN messages, again \in BOOLEAN : Deliver(1, id, again)
    \/ CloseChat(1)

SpecChat == Init /\ [][NextChat]_vars

\* Device 1 is shared: user 1 and an outsider sign in and out of App.tsx on
\* it (the tabbed build keeps its first account); user 2 accepts on device 2.
\* All notifications are lost, the clocks stand still.
NextIntruder ==
    \/ SignIn(1, 1)
    \/ SignIn(1, Outsider)
    \/ SignIn(2, 2)
    \/ SignOutApp(1)
    \/ SendRequestStart(1, 2)
    \/ SendRequestInsert(1)
    \/ \E s \in Sessions : LoadPendingOutgoing(s)
    \/ \E s \in Sessions : FetchStart(s)
    \/ ChatsRefreshStart(1)
    \/ \E s \in Sessions : RefreshRequests(s)
    \/ \E s \in Sessions : RefreshMatches(s)
    \/ \E r \in incoming[2] : AcceptStart(2, r)
    \/ AcceptUpdate(2)
    \/ AcceptInsert(2)
    \/ \E m \in matchList[1] : OpenChat(1, m)
    \/ LoadMessages(1)
    \/ \E t \in Texts : SendMessageStart(1, t, now)
    \/ SendMessageInsert(1, {})
    \/ CloseChat(1)

SpecIntruder == Init /\ [][NextIntruder]_vars

\* Both participants chat, each on their own device, and take turns: a send
\* is issued only when no other send is in flight. Device 1's clock runs
\* ahead, device 2's is exact; only device 1's notifications get through and
\* only user 2 leaves the chat. Nobody refreshes once the match is listed.
NextChatTwo ==
    \/ \E s \in Sessions : SignIn(s, s)
    \/ SendRequestStart(1, 2)
    \/ SendRequestInsert(1)
    \/ \E s \in Sessions : LoadPendingOutgoing(s)
    \/ \E s \in Sessions : matchList[s] = {} /\ FetchStart(s)
    \/ \E s \in Sessions : matchList[s] = {} /\ ChatsRefreshStart(s)
    \/ \E s \in Sessions : RefreshRequests(s)
    \/ \E s \in Sessions : RefreshMatches(s)
    \/ \E r \in incoming[2] : AcceptStart(2, r)
    \/ AcceptUpdate(2)
    \/ AcceptInsert(2)
    \/ \E s \in Sessions : \E m \in matchList[s] : OpenChat(s, m)
    \/ \E s \in Sessions : LoadMessages(s)
    \/ op[2].kind # "msg" /\ SendMessageStart(1, <<"a">>, now + MaxClockSkewS)
    \/ op[1].kind # "msg" /\ SendMessageStart(2, <<"a">>, now)
    \/ \E s \in Sessions : \E got \in SUBSET {1} : SendMessageInsert(s, got)
    \/ \E id \in DOMAIN messages, again \in BOOLEAN : Deliver(1, id, again)
    \/ CloseChat(2)

SpecChatTwo == Init /\ [][NextChatTwo]_vars

\* The history load against live delivery: user 2 is in the chat and writes
\* while user 1 opens it; user 1's query is answered by the store in one step
\* and its rows reach the screen in a later one, notifications for device 1
\* arrive in between or not at all. The clocks are exact.
NextLoadRace ==
    \/ \E s \in Sessions : SignIn(s, s)
    \/ SendRequestStart(1, 2)
    \/ SendRequestInsert(1)
    \/ \E s \in Sessions : LoadPendingOutgoing(s)
    \/ \E s \in Sessions : matchList[s] = {} /\ FetchStart(s)
    \/ \E s \in Sessions : matchList[s] = {} /\ ChatsRefreshStart(s)
    \/ \E s \in Sessions : RefreshRequests(s)
    \/ \E s \in Sessions : RefreshMatches(s)
    \/ \E r \in incoming[2] : AcceptStart(2, r)
    \/ AcceptUpdate(2)
    \/ AcceptInsert(2)
    \/ \E s \in Sessions : \E m \in matchList[s] : OpenChat(s, m)
    \/ LoadMessages(2)
    \/ LoadMessagesQuery(1)
    \/ LoadMessagesApply(1)
    \/ SendMessageStart(2, <<"a">>, now)
    \/ \E got \in SUBSET {1} : SendMessageInsert(2, got)
    \/ \E id \in DOMAIN messages : Deliver(1, id, FALSE)
    \/ CloseChat(1)

SpecLoadRace == Init /\ [][NextLoadRace]_vars

\* User 1 tries everything on device 1, the refused inputs included: a
\* request to themself, a blank message, a nearby search without a cell.
\* User 2 only accepts.
NextValidate ==
    \/ \E s \in Sessions : SignIn(s, s)
    \/ \E t \in Users : SendRequestStart(1, t)
    \/ SendRequestSelf(1)
    \/ SendRequestInsert(1)
    \/ \E s \in Sessions : LoadPendingOutgoing(s)
    \/ \E s \in Sessions : FetchStart(s)
    \/ ChatsRefreshStart(1)
    \/ \E s \in Sessions : RefreshRequests(s)
    \/ \E s \in Sessions : RefreshMatches(s)
    \/ \E r \in incoming[2] : AcceptStart(2, r)
    \/ AcceptUpdate(2)
    \/ AcceptInsert(2)
    \/ \E m \in matchList[1] : OpenChat(1, m)
    \/ LoadMessages(1)
    \/ \E t \in Texts : SendMessageEmpty(1, t)
    \/ \E t \in Texts : SendMessageStart(1, t, now)
    \/ SendMessageInsert(1, {})
    \/ CloseChat(1)
    \/ \E st \in {"red", "green"} : UpdatePresenceStart(1, st)
    \/ UpdatePresenceUpsert(1, "op")
    \/ FetchNearbyNoCell(1)
    \/ FetchNearbyStart(1)
    \/ FetchNearbyQuery(1)

SpecValidate == Init /\ [][NextValidate]_vars

\* One user on one device whose location permission comes and goes and
\* whose presence upserts may fail.
NextDenied ==
    \/ Tick(TickStep, MaxTicks)
    \/ SignIn(1, 1)
    \/ LoadPendingOutgoing(1)
    \/ \E st \in Statuses : UpdatePresenceGranted(1, st)
    \/ \E st \in Statuses : UpdatePresenceDenied(1, st)
    \/ HeartbeatFireGranted(1)
    \/ HeartbeatFireDenied(1)
    \/ \E w \in {"op", "hb"} : UpdatePresenceUpsert(1, w)
    \/ \E w \in {"op", "hb"} : UpdatePresenceUpsertError(1, w)
    \/ \E b \in Bands : SetBand(1, b)

SpecDenied == Init /\ [][NextDenied]_vars

\* One user on one device whose permission is granted and whose writes
\* succeed at once: the clock moves in steps of half a heartbeat period and
\* only when no call is in flight and no interval callback is due; the user
\* picks a band only at an instant at which no callback is due.
PunctualTick ==
    /\ \A s \in Sessions :
          /\ op[s].kind = "idle" /\ hb[s].kind = "idle"
          /\ timer[s].on => timer[s].due > now
    /\ Tick(KeepAliveStep, MaxKeepAliveTicks)

NextKeepAlive ==
    \/ PunctualTick
    \/ SignIn(1, 1)
    \/ LoadPendingOutgoing(1)
    \/ \E st \in Statuses : UpdatePresenceGranted(1, st)
    \/ HeartbeatFireGranted(1)
    \/ \E w \in {"op", "hb"} : UpdatePresenceUpsert(1, w)
    \/ \E b \in Bands : timer[1].due > now /\ SetBand(1, b)

SpecKeepAlive == Init /\ [][NextKeepAlive]_vars

\* Two users share on their own devices with every interval callback on
\* time; the writes of device 1's callbacks may fail at the store, which the
\* silent call does not show. User 1 looks for others.
StaleTick ==
    /\ \A s \in Sessions :
          /\ op[s].kind = "idle" /\ hb[s].kind = "idle"
          /\ timer[s].on => timer[s].due > now
    /\ Tick(HeartbeatS, MaxStaleTicks)

NextStale ==
    \/ StaleTick
    \/ \E s \in Sessions : SignIn(s, s)
    \/ \E s \in Sessions : LoadPendingOutgoing(s)
    \/ \E st \in Statuses : UpdatePresenceGranted(1, st)
    \/ UpdatePresenceGranted(2, "green")
    \/ \E s \in Sessions : HeartbeatFireGranted(s)
    \/ \E s \in Sessions, w \in {"op", "hb"} : UpdatePresenceUpsert(s, w)
    \/ UpdatePresenceUpsertError(1, "hb")
    \/ FetchNearbyNoCell(1)
    \/ FetchNearbyStart(1)
    \/ FetchNearbyQuery(1)

SpecStale == Init /\ [][NextStale]_vars

\* User 1 asks user 2, who accepts or declines; both keep refreshing what
\* their screens let them refresh. Every awaited store call returns, and a
\* user who can press Refresh again and again does so.
NextPending ==
    \/ \E s \in Sessions : SignIn(s, s)
    \/ SendRequestStart(1, 2)
    \/ SendRequestInsert(1)
    \/ \E s \in Sessions : LoadPendingOutgoing(s)
    \/ \E s \in Sessions : FetchStart(s)
    \/ \E s \in Sessions : ChatsRefreshStart(s)
    \/ \E s \in Sessions : RefreshRequests(s)
    \/ \E s \in Sessions : RefreshMatches(s)
    \/ \E r \in incoming[2] : AcceptStart(2, r)
    \/ \E r \in incoming[2] : DeclineStart(2, r)
    \/ AcceptUpdate(2)
    \/ AcceptInsert(2)
    \/ DeclineUpdate(2)

PendingFairness ==
    /\ WF_vars(SendRequestInsert(1))
    /\ WF_vars(AcceptUpdate(2))
    /\ WF_vars(AcceptInsert(2))
    /\ WF_vars(DeclineUpdate(2))
    /\ \A s \in Sessions :
          /\ WF_vars(LoadPendingOutgoing(s))
          /\ WF_vars(RefreshRequests(s))
          /\ WF_vars(RefreshMatches(s))
          /\ SF_vars(FetchStart(s))
          /\ SF_vars(ChatsRefreshStart(s))

SpecPending == Init /\ [][NextPending]_vars /\ PendingFairness

\* One user on one device: status changes, band changes, the heartbeat and
\* both sign-outs.
NextHeartbeat ==
    \/ Tick(TickStep, MaxTicks)
    \/ SignIn(1, 1)
    \/ SignOutApp(1)
    \/ HandleSignOutStart(1)
    \/ HandleSignOutFinish(1)
    \/ LoadPendingOutgoing(1)
    \/ \E st \in Statuses : UpdatePresenceStart(1, st)
    \/ HeartbeatFire(1)
    \/ \E w \in {"op", "hb"} : UpdatePresenceUpsert(1, w)
    \/ \E b \in Bands : SetBand(1, b)

SpecHeartbeat == Init /\ [][NextHeartbeat]_vars

\* Every user on an own device: both share, the first also changes band and
\* looks for others. The clock moves by one time-to-live of an ON record; the
\* interval callbacks do not run here (SpecHeartbeat has them).
NextNearby ==
    \/ Tick(OnTtlS, MaxNearbyTicks)
    \/ \E s \in Sessions : SignIn(s, s)
    \/ \E s \in Sessions : LoadPendingOutgoing(s)
    \/ \E s \in Sessions, st \in Statuses : UpdatePresenceStart(s, st)
    \/ \E s \in Sessions : UpdatePresenceUpsert(s, "op")
    \/ \E b \in Bands : SetBand(1, b)
    \/ FetchNearbyNoCell(1)
    \/ FetchNearbyStart(1)
    \/ FetchNearbyQuery(1)

SpecNearby == Init /\ [][NextNearby]_vars

NextRel ==
    \/ Tick(TickStep, MaxRelTicks)
    \/ \E s \in Sessions, u \in Users : SignIn(s, u)
    \/ \E s \in Sessions, t \in Users : SendRequestStart(s, t)
    \/ \E s \in Sessions : SendRequestSelf(s)
    \/ \E s \in Sessions : SendRequestInsert(s)
    \/ \E s \in Sessions : LoadPendingOutgoing(s)
    \/ \E s \in Sessions : RefreshRequests(s)
    \/ \E s \in Sessions : RefreshMatches(s)
    \/ \E s \in Sessions : FetchStart(s)
    \/ \E s \in Sessions : \E r \in incoming[s] : AcceptStart(s, r)
    \/ \E s \in Sessions : \E r \in incoming[s] : DeclineStart(s, r)
    \/ \E s \in Sessions : AcceptUpdate(s)
    \/ \E s \in Sessions : AcceptInsert(s)
    \/ \E s \in Sessions : DeclineUpdate(s)

SpecRel == Init /\ [][NextRel]_vars

\* One shared device: accounts are switched on session 1 (App.tsx signOut),
\* the clock stands still.
NextSwitch ==
    \/ \E s \in Sessions, u \in Users : SignIn(s, u)
    \/ SignOutApp(1)
    \/ \E s \in Sessions, t \in Users : SendRequestStart(s, t)
    \/ \E s \in Sessions : SendRequestInsert(s)
    \/ \E s \in Sessions : LoadPendingOutgoing(s)
    \/ \E s \in Sessions : RefreshRequests(s)
    \/ \E s \in Sessions : RefreshMatches(s)
    \/ \E s \in Sessions : FetchStart(s)
    \/ \E s \in Sessions : \E r \in incoming[s] : AcceptStart(s, r)
    \/ \E s \in Sessions : \E r \in incoming[s] : DeclineStart(s, r)
    \/ \E s \in Sessions : AcceptUpdate(s)
    \/ \E s \in Sessions : AcceptInsert(s)
    \/ \E s \in Sessions : DeclineUpdate(s)

SpecSwitch == Init /\ [][NextSwitch]_vars

---------------------------------------------------------------------------
(* Properties of the relationship state machine *)

RequestOf(m) == requests[m.request_id]

SamePair(i, k) ==
    /\ requests[i].from_user = requests[k].from_user
    /\ requests[i].to_user = requests[k].to_user

\* the step in which session s's handler leaves the store call `pc`
Leaves(s, kind, pc) ==
    /\ op[s].kind = kind /\ op[s].pc = pc
    /\ op'[s] # op[s]

\* C2: a request that is no longer PENDING never changes again (neither its
\* status nor its respondedAt), whatever respond is applied to it.
C2_ResolvedIsTerminal ==
    [][\A i \in DOMAIN requests :
          requests[i].status # "pending" => requests'[i] = requests[i]]_vars

\* C3: in every store state a request with status ACCEPTED has a Match whose
\* requestId is that request's id.
C3_AcceptedHasMatch ==
    \A i \in DOMAIN requests :
        requests[i].status = "accepted"
            => \E j \in DOMAIN matches : matches[j].request_id = requests[i].id

\* C4: in every store state the request a Match references is ACCEPTED (so a
\* DECLINED request never has a Match).
C4_MatchOnlyForAccepted ==
    \A j \in DOMAIN matches : RequestOf(matches[j]).status = "accepted"

\* C5: at most one Match per request id, and an acceptRequest whose insert
\* hit the unique violation 23505 goes on as a success: it adds no Match and
\* no accept ever reports "Accept failed".
C5_AcceptIdempotent ==
    /\ \A j, k \in DOMAIN matches :
          matches[j].request_id = matches[k].request_id => j = k
    /\ \A s \in Sessions :
          /\ alert[s] # "Accept failed"
          /\ (op[s].kind = "accept" /\ op[s].code = "23505")
                => /\ op[s].pc \in {"reqs", "matches"}
                   /\ build = "App" => alert[s] = "Match"

\* C5 witness: an acceptRequest got 23505 from the matches insert.
C5_Witness ==
    \E s \in Sessions : op[s].kind = "accept" /\ op[s].code = "23505"

\* C6: every Match has user_a < user_b and {user_a, user_b} = {fromUser,
\* toUser} of the request it references.
C6_CanonicalPair ==
    \A j \in DOMAIN matches :
        /\ matches[j].user_a < matches[j].user_b
        /\ {matches[j].user_a, matches[j].user_b}
             = {RequestOf(matches[j]).from_user, RequestOf(matches[j]).to_user}

\* C6 witness: a Match of a request sent by the larger id, and one of a
\* request sent by the smaller id.
C6_Witness ==
    /\ \E j \in DOMAIN matches :
          RequestOf(matches[j]).from_user > RequestOf(matches[j]).to_user
    /\ \E j \in DOMAIN matches :
          RequestOf(matches[j]).from_user < RequestOf(matches[j]).to_user

\* C7: at most one PENDING request per ordered pair after every step, and a
\* sendRequest whose insert meets a PENDING request of its pair leaves the
\* store unchanged and reports "already sent", never "Send failed".
C7_OnePendingPerPair ==
    [][/\ \A i, k \in DOMAIN requests' :
             (/\ requests'[i].status = "pending"
              /\ requests'[k].status = "pending"
              /\ requests'[i].from_user = requests'[k].from_user
              /\ requests'[i].to_user = requests'[k].to_user) => i = k
       /\ \A s \in Sessions :
             (Leaves(s, "send", "insert") /\ PendingExists(op[s].uid, op[s].to))
                => /\ requests' = requests
                   /\ matches' = matches
                   /\ alert'[s] = "Request/AlreadySent"
                   /\ op'[s].kind = "send"]_vars

\* C7 witness: a sendRequest got 23505 from the insert.
C7_Witness ==
    \E s \in Sessions : op[s].kind = "send" /\ op[s].code = "23505"

\* C8: a sendRequest whose insert finds no PENDING request of its pair (all
\* earlier ones are resolved) creates a new PENDING request and reports
\* "Sent".
C8_ResendAfterResolved ==
    [][\A s \in Sessions :
          (Leaves(s, "send", "insert") /\ ~PendingExists(op[s].uid, op[s].to))
             => /\ Len(requests') = Len(requests) + 1
                /\ requests'[Len(requests')].from_user = op[s].uid
                /\ requests'[Len(requests')].to_user = op[s].to
                /\ requests'[Len(requests')].status = "pending"
                /\ \A i \in DOMAIN requests : requests'[i] = requests[i]
                /\ alert'[s] = "Request/Sent"]_vars

\* C8 witness: a PENDING request of a pair that has an earlier accepted and
\* (in another run) an earlier declined request.
C8_Witness ==
    \E i, k \in DOMAIN requests :
        /\ k < i /\ SamePair(i, k)
        /\ requests[i].status = "pending"
        /\ requests[k].status \in {"accepted", "declined"}
        /\ alert[1] = "Request/Sent"

\* C9: every status change of a request is made by a respond of its toUser.
C9_OnlyRecipientResponds ==
    [][\A i \in DOMAIN requests :
          requests'[i].status # requests[i].status
             => \E s \in Sessions :
                   /\ op[s].pc = "update" /\ op'[s] # op[s]
                   /\ op[s].req.id = i
                   /\ op[s].uid = requests[i].to_user]_vars


\* C1: once the stored record of a session's user and the session's local
\* status are OFF (red), a heartbeat write of that session leaves both OFF,
\* also when its updatePresence call was in flight before the OFF write.
C1_NoHeartbeatResurrection ==
    [][\A s \in Sessions :
          ( /\ hb[s].kind = "presence" /\ hb[s].pc = "upsert"
            /\ hb'[s].kind = "idle"
            /\ presence[hb[s].uid].status = "red"
            /\ status[s] = "red" )
             => /\ presence'[hb[s].uid].status = "red"
                /\ status'[s] = "red"]_vars

\* C10: the list fetchNearby produces has no entry of the caller, none whose
\* stored status is red, none whose expires_at is at or before the query
\* time, and every entry's stored cell is the cell queried with.
C10_NearbyFiltered ==
    [][\A s \in Sessions :
          (Leaves(s, "nearby", "query") /\ op[s].live)
             => \A it \in nearby'[s] :
                   /\ it.userId # op[s].uid
                   /\ presence[it.userId].status \notin {"none", "red"}
                   /\ presence[it.userId].expires_at > op[s].t0
                   /\ presence[it.userId].h3_cell = op[s].cell]_vars

\* C10 witness: a non-empty list while the caller's own record is ON in the
\* same cell and unexpired.
C10_Witness ==
    \E s \in Sessions :
        /\ userId[s] # NoUser
        /\ op[s].kind = "idle"
        /\ nearby[s] # {}
        /\ presence[userId[s]].status \notin {"none", "red"}
        /\ presence[userId[s]].h3_cell = myCell[s]
        /\ presence[userId[s]].expires_at > now
        /\ \A it \in nearby[s] : presence[it.userId].h3_cell = myCell[s]

\* C11: every stored presence record keeps the record invariant: status red
\* goes with a null cell and expires_at = last_seen_at + 10 s, any other
\* status with a cell of the encoder for the record's band and
\* expires_at = last_seen_at + 120 s.
C11_RecordInvariant ==
    \A u \in Users :
        presence[u].status # "none"
            => IF presence[u].status = "red"
               THEN /\ presence[u].h3_cell = NoCell
                    /\ presence[u].expires_at = presence[u].last_seen_at + OffTtlS
               ELSE /\ presence[u].h3_cell # NoCell
                    /\ presence[u].h3_cell \in Located(presence[u].band_m)
                    /\ presence[u].expires_at = presence[u].last_seen_at + OnTtlS

\* C11 witness: a red record written after time has passed, by a session
\* whose band was changed.
C11_Witness ==
    \E u \in Users :
        /\ presence[u].status = "red"
        /\ presence[u].last_seen_at > 0
        /\ presence[u].band_m # DefaultBand

\* C12: the stored last_seen_at of a user's presence record never decreases:
\* a call that took its timestamp earlier never overwrites the record of a
\* call with a later timestamp.
C12_LastSeenMonotone ==
    [][\A u \in Users :
          presence[u].status # "none"
             => presence'[u].last_seen_at >= presence[u].last_seen_at]_vars

\* C13: a heartbeat write leaves status, band and cell of the stored record
\* as they are and changes only last_seen_at and expires_at.
C13_HeartbeatKeepsRecord ==
    [][\A s \in Sessions :
          ( /\ hb[s].kind = "presence" /\ hb[s].pc = "upsert"
            /\ hb'[s].kind = "idle"
            /\ presence[hb[s].uid].status \notin {"none", "red"} )
             => /\ presence'[hb[s].uid].status = presence[hb[s].uid].status
                /\ presence'[hb[s].uid].band_m = presence[hb[s].uid].band_m
                /\ presence'[hb[s].uid].h3_cell = presence[hb[s].uid].h3_cell]_vars

\* C14: every stored message has a sender_user that is user_a or user_b of
\* the match its match_id names.
C14_SenderIsParticipant ==
    \A i \in DOMAIN messages :
        messages[i].sender_user \in { matches[messages[i].match_id].user_a,
                                      matches[messages[i].match_id].user_b }


\* C15: the message list a session holds is sorted ascending by
\* (created_at, id), id breaking ties between equal created_at values,
\* after the history load and after every live insertion.
C15_SortedByCreatedAndId ==
    \A s \in Sessions : \A i, k \in DOMAIN msgList[s] :
        i < k =>
            \/ msgList[s][i].created_at < msgList[s][k].created_at
            \/ /\ msgList[s][i].created_at = msgList[s][k].created_at
               /\ msgList[s][i].id < msgList[s][k].id


\* C16: history returns a match's messages in send order. Under SpecChatTwo
\* the sends take turns, so ids count the sends in the order they completed
\* and every later message was issued after the earlier one completed: every
\* history result lists the ids in ascending order.
C16_HistoryInSendOrder ==
    \A m \in DOMAIN matches :
        \A rows \in HistoryOrders(m, HistoryLimit) :
            \A i, k \in DOMAIN rows : i < k => rows[i].id < rows[k].id


C18_ViewEqualsStoreAfterNotification ==
    [][\A s \in Sessions : \A id \in notes[s] :
          (Deliver(s, id, TRUE) \/ Deliver(s, id, FALSE))
          => { msgList'[s][i].id : i \in DOMAIN msgList'[s] }
                = MessagesOf(activeMatch[s])]_vars


\* C19: validation failures come before any store access: a request to
\* oneself, a message whose trimmed body is empty and a nearby search without
\* a cell write nothing, start no call and leave the store and the caller's
\* lists as they were; no stored request has from_user = to_user and every
\* stored message body has a character that is not a blank.
C19_ValidationBeforeStore ==
    /\ [](\A i \in DOMAIN requests :
              requests[i].from_user # requests[i].to_user)
    /\ [](\A i \in DOMAIN messages :
              \E k \in DOMAIN messages[i].body : messages[i].body[k] # " ")
    /\ [][\A s \in Sessions :
              ( \/ SendRequestSelf(s)
                \/ \E t \in Texts : SendMessageEmpty(s, t)
                \/ FetchNearbyNoCell(s) )
              => UNCHANGED <<presence, requests, matches, messages, op, nearby,
                             incoming, outgoing, matchList, pendingTo,
                             msgList>>]_vars

\* a nearby search was refused for want of a cell while the store already
\* holds a request and a message of the caller
C19_Witness ==
    /\ alert[1] = "Nearby/NoCell"
    /\ \E i \in DOMAIN requests : requests[i].from_user = 1
    /\ \E i \in DOMAIN messages : messages[i].sender_user = 1


\* C20: while a session has no user id, no operation it invokes reaches the
\* store: no call starts, no refresh begins its reads, and no heartbeat
\* timer is running.
C20_NothingStartsSignedOut ==
    /\ [](\A s \in Sessions : userId[s] = NoUser => ~timer[s].on)
    /\ [][\A s \in Sessions :
              (userId[s] = NoUser /\ userId'[s] = NoUser)
              => /\ op[s].kind = "idle" => op'[s].kind = "idle"
                 /\ hb[s].kind = "idle" => hb'[s].kind = "idle"
                 /\ so[s].kind = "idle" => so'[s].kind = "idle"
                 /\ op[s].pc # "reqs" => op'[s].pc # "reqs"]_vars


\* C21: a status change that fails, because the location permission is
\* refused or because the presence upsert returns an error, leaves the
\* stored presence record, the session's status and its cell unchanged; a
\* refused permission starts no store call.
C21_FailedPresenceFrame ==
    [][\A s \in Sessions :
          /\ ( \/ alert'[s] = "Presence update failed" /\ alert'[s] # alert[s]
               \/ HeartbeatFireDenied(s)
               \/ \E w \in {"op", "hb"} : UpdatePresenceUpsertError(s, w) )
             => UNCHANGED <<presence, status, myCell>>
          /\ ( \/ HeartbeatFireDenied(s)
               \/ \E st \in Statuses : UpdatePresenceDenied(s, st) )
             => op'[s] = op[s] /\ hb'[s] = hb[s]]_vars

\* a change away from green has just failed: the alert is up, the session
\* is still green and so is the stored record
C21_Witness ==
    /\ alert[1] = "Presence update failed"
    /\ status[1] = "green"
    /\ presence[1].status = "green"
    /\ myCell[1] # NoCell


\* C22: nothing is written on behalf of another user: a call carries the id
\* of the user who is signed in on the session when it starts, a presence
\* record changes only by a call that carries its user's id, a new request
\* has the caller's id as from_user and a new message has it as sender_user.
C22_OwnWritesOnly ==
    [][/\ \A s \in Sessions :
             /\ (op[s].kind = "idle" /\ op'[s].kind # "idle")
                   => op'[s].uid = userId'[s] /\ userId'[s] # NoUser
             /\ (hb[s].kind = "idle" /\ hb'[s].kind # "idle")
                   => hb'[s].uid = userId'[s] /\ userId'[s] # NoUser
             /\ (so[s].kind = "idle" /\ so'[s].kind # "idle")
                   => so'[s].uid = userId'[s] /\ userId'[s] # NoUser
       /\ \A u \in Users :
             presence'[u] # presence[u]
             => \E s \in Sessions :
                   \E c \in {op[s], hb[s], so[s]} :
                       c.kind = "presence" /\ c.pc = "upsert" /\ c.uid = u
       /\ Len(requests') > Len(requests)
             => \E s \in Sessions :
                   /\ op[s].kind = "send" /\ op'[s] # op[s]
                   /\ requests'[Len(requests')].from_user = op[s].uid
       /\ Len(messages') > Len(messages)
             => \E s \in Sessions :
                   /\ op[s].kind = "msg" /\ op'[s] # op[s]
                   /\ messages'[Len(messages')].sender_user = op[s].uid]_vars

\* user 1 has written a presence record, a request and a message
C22_Witness ==
    /\ presence[1].status = "green"
    /\ \E i \in DOMAIN requests : requests[i].from_user = 1
    /\ \E i \in DOMAIN messages : messages[i].sender_user = 1
    /\ \A i \in DOMAIN messages : messages[i].sender_user = 1


\* C23: matches and messages are immutable and never deleted, and the
\* from_user and to_user of a request never change: every step keeps each
\* stored match and message as it is and each request's two users.
C23_AppendOnly ==
    [][/\ \A i \in DOMAIN matches :
             i \in DOMAIN matches' /\ matches'[i] = matches[i]
       /\ \A i \in DOMAIN messages :
             i \in DOMAIN messages' /\ messages'[i] = messages[i]
       /\ \A i \in DOMAIN requests :
             /\ i \in DOMAIN requests'
             /\ requests'[i].id = requests[i].id
             /\ requests'[i].from_user = requests[i].from_user
             /\ requests'[i].to_user = requests[i].to_user]_vars

\* the request was accepted, its match exists and two messages followed
C23_Witness ==
    /\ Len(matches) = 1
    /\ Len(messages) = MaxMessages
    /\ requests[matches[1].request_id].status = "accepted"


\* C24: while a session is signed in with a status other than red and its
\* presence writes succeed, the user's stored record is not expired:
\* expires_at is later than the current time (looked at when no interval
\* callback is due at that very instant and no write is in flight).
C24_RecordKeptAlive ==
    \A s \in Sessions :
        ( /\ userId[s] # NoUser /\ status[s] # "red"
          /\ timer[s].due > now
          /\ op[s].kind = "idle" /\ hb[s].kind = "idle" )
        => presence[userId[s]].expires_at > now


\* C25: for a signed-in session whose status is not red and which has no
\* call in flight, the selected band equals the band encoded in the
\* session's cell and the band of the stored record.
C25_BandWrittenThrough ==
    \A s \in Sessions :
        ( /\ userId[s] # NoUser /\ status[s] # "red"
          /\ op[s].kind = "idle" /\ hb[s].kind = "idle" )
        => /\ myCell[s] # NoCell
           /\ myCell[s][1] = bandM[s]
           /\ presence[userId[s]].band_m = bandM[s]


\* C26: once the request user 1 sent to user 2 is resolved and none is
\* pending, user 1's session eventually stops showing user 2 as requested.
C26_PendingRederived ==
    ( /\ userId[1] = 1
      /\ \E i \in DOMAIN requests :
            /\ requests[i].from_user = 1 /\ requests[i].to_user = 2
            /\ requests[i].status # "pending"
      /\ ~PendingExists(1, 2) )
    ~> ~Already(1, 2)


C28_OneMatchPerPair ==
    \A j, k \in DOMAIN matches :
        ( /\ matches[j].user_a = matches[k].user_a
          /\ matches[j].user_b = matches[k].user_b ) => j = k


\* C29: cell ids of different bands never coincide, and the list
\* fetchNearby produces has no user whose stored band differs from the band
\* in the cell the caller queried with.
C29_NoCrossBandCollision ==
    /\ [](\A b1, b2 \in Bands : \A p, q \in Positions :
              b1 # b2 => CellTable[b1][p] # CellTable[b2][q])
    /\ [][\A s \in Sessions :
              (Leaves(s, "nearby", "query") /\ op[s].live)
                 => \A it \in nearby'[s] :
                       presence[it.userId].band_m = op[s].cell[1]]_vars

\* both users are discoverable with different bands, and user 1's search
\* has come back empty
C29_Witness ==
    /\ alert[1] = "Nearby/found"
    /\ nearby[1] = {}
    /\ myCell[1] # NoCell
    /\ presence[1].status \notin {"none", "red"}
    /\ presence[2].status \notin {"none", "red"}
    /\ presence[1].expires_at > now /\ presence[2].expires_at > now
    /\ presence[1].band_m # presence[2].band_m
    /\ presence[1].h3_cell = myCell[1]


C32_RespondedAtIffResolved ==
    /\ [](\A i \in DOMAIN requests :
             (requests[i].responded_at = NoTime) <=> (requests[i].status = "pending"))
    /\ [][/\ \A i \in DOMAIN requests' \ DOMAIN requests :
                /\ requests'[i].status = "pending"
                /\ requests'[i].responded_at = NoTime
          /\ \A i \in DOMAIN requests :
                (requests[i].status = "pending" /\ requests'[i].status # "pending")
                   => /\ requests'[i].status \in {"accepted", "declined"}
                      /\ requests'[i].responded_at # NoTime
                      /\ requests'[i].responded_at <= now]_vars

\* one request accepted, a later one still pending
C32_Witness ==
    /\ Len(requests) = 2
    /\ requests[1].status = "accepted" /\ requests[1].responded_at # NoTime
    /\ requests[2].status = "pending" /\ requests[2].responded_at = NoTime


\* C33: no message is lost between the history load and live delivery: when
\* a load completes on a screen that is still showing the match, every
\* message the realtime callback has put into the list while the load was in
\* flight is still in the list.
C33_NoMessageLostInLoadRace ==
    [][\A s \in Sessions :
          ( /\ op[s].kind = "chat" /\ op'[s].kind = "idle"
            /\ op[s].live /\ activeMatch[s] = op[s].mid )
             => \A i \in DOMAIN msgList[s] : Exists(msgList'[s], msgList[s][i])]_vars


\* C34: a session that shows OFF is not discoverable once the OFF grace
\* period has passed: when more than 10 s go by while device s shows red,
\* with its user s signed in or signed out, the stored record of user s is
\* red or expired at the end of it. (Device s is only ever used by user s
\* in the specifications this is checked under.)
C34_OffIsNotDiscoverable ==
    [][\A s \in Sessions :
          ( /\ now' > now + OffTtlS
            /\ status[s] = "red"
            /\ userId[s] \in {NoUser, s} )
             => \/ presence'[s].status \in {"none", "red"}
                \/ presence'[s].expires_at <= now']_vars


\* C35: per session the heartbeat timer is active exactly when the session
\* has a user id and its local status is not red, the active timer is the
\* one started for the current user id, status and band, and every step
\* that changes user id, status or band replaces the timer by a freshly
\* started one (or by none).
C35_OneTimerIffSharing ==
    /\ [](\A s \in Sessions :
             /\ timer[s].on <=> (userId[s] # NoUser /\ status[s] # "red")
             /\ timer[s].on => /\ timer[s].uid = userId[s]
                               /\ timer[s].st = status[s]
                               /\ timer[s].band = bandM[s])
    /\ [][\A s \in Sessions :
              (userId'[s] # userId[s] \/ status'[s] # status[s] \/ bandM'[s] # bandM[s])
                 => timer'[s] =
                       IF userId'[s] = NoUser \/ status'[s] = "red" THEN NoTimer
                       ELSE [on |-> TRUE, st |-> status'[s], uid |-> userId'[s],
                             band |-> bandM'[s], due |-> now + HeartbeatS]]_vars

\* the timer runs for green at band 50 after the clock has moved and a
\* callback of it is due
C35_Witness ==
    /\ timer[1].on /\ timer[1].st = "green" /\ timer[1].band = 50
    /\ now >= timer[1].due /\ userId[1] = 1


\* C36: the history load returns a prefix of the match's messages in
\* ascending created_at order: for every limit, the rows are messages of the
\* match without repetition, in non-decreasing created_at, as many as the
\* match holds but no more than the limit, and no message left out is
\* earlier than one returned; the load of an open chat shows such rows for
\* the build's limit (200 in App.tsx, 300 in the chat screen).
C36_HistoryIsEarliestPrefix ==
    /\ [](\A m \in DOMAIN matches : \A lim \in 0..MaxMessages :
             \A rows \in HistoryOrders(m, lim) :
                /\ Len(rows) = Min(Cardinality(MessagesOf(m)), lim)
                /\ \A i \in DOMAIN rows :
                      /\ rows[i].id \in MessagesOf(m)
                      /\ rows[i] = messages[rows[i].id]
                /\ \A i, k \in DOMAIN rows :
                      i < k => /\ rows[i].id # rows[k].id
                               /\ rows[i].created_at <= rows[k].created_at
                /\ \A j \in MessagesOf(m) :
                      (\A i \in DOMAIN rows : rows[i].id # j)
                         => \A i \in DOMAIN rows :
                               rows[i].created_at <= messages[j].created_at)
    /\ [][\A s \in Sessions :
              ( /\ Leaves(s, "chat", "history") /\ op[s].live
                /\ (build = "App" \/ activeMatch[s] = op[s].mid) )
                 => /\ msgList'[s] \in HistoryOrders(op[s].mid, HistoryLimit)
                    /\ Len(msgList'[s]) <= HistoryLimit
                    /\ HistoryLimit = IF build = "App" THEN 200 ELSE 300]_vars

\* a match holds more messages than a limit of one, the later one stored
\* first, and the open chat has loaded both
C36_Witness ==
    /\ Len(messages) = 2
    /\ messages[1].match_id = messages[2].match_id
    /\ messages[1].created_at > messages[2].created_at
    /\ op[1].kind = "idle" /\ activeMatch[1] = messages[1].match_id
    /\ Len(msgList[1]) = 2 /\ msgList[1][1].id = 2


\* C37: discovery requires the caller's own presence to be current: whenever
\* fetchNearby's query returns occupants, the caller's stored record is not
\* red, not expired and has the cell queried with.
C37_CallerPresenceCurrent ==
    [][\A s \in Sessions :
          (Leaves(s, "nearby", "query") /\ op[s].live /\ nearby'[s] # {})
             => /\ presence[op[s].uid].status \in {"orange", "green"}
                /\ presence[op[s].uid].expires_at > now
                /\ presence[op[s].uid].h3_cell = op[s].cell]_vars

====
